---- MODULE Spec2Model ----
(***************************************************************************)
(* Model of the source-node adapter of the streaming engine                *)
(* (crates/polars-stream/src/nodes/io_sources/mod.rs): SourceComputeNode,  *)
(* its per-phase driving task, PhaseOutcomeToken, SourceOutput, and the    *)
(* background tasks of a SourceNode that follow the spawn_source contract. *)
(***************************************************************************)
EXTENDS Integers, Sequences, FiniteSets, TLC

\* Number of background tasks a producer may register in spawn_source.
NTasks == 2

\* Number of phases (spawn calls) explored.
MaxPhases == 3

\* Number of ports the scheduler may pass on either side of a call.
MaxPorts == 2

\* Number of consumer lanes behind a parallel send port.
NumLanes == 2

\* Sinks a port can be built from, and the longest parallel port.
MaxSinks == 3

\* Bundles built by from_port calls made on their own.
MaxBundles == 3

\* Distinct read options, cloud options (0 is None), cached metadata
\* (0 is None) and anonymous scan functions of a FileScan.
NumOptions == 2

NumCloud == 1

NumMeta == 1

NumFunctions == 2

Tasks == 1..NTasks

\* The background task that owns output_recv (a connector Receiver is not Clone).
RecvTask == 1

PortStates == {"Blocked", "Ready", "Done"}

Running == {"recv", "hold", "run"}

Finished == {"ok", "err"}

VARIABLES
    alive,           \* the SourceComputeNode has not been dropped
    started,         \* self.started.is_some()
    join_handles,    \* handles still inside started.join_handles
    ready_q,         \* ready-to-run queue of the FuturesUnordered
    chan_slot,       \* the connector's single slot: 0 or a SourceOutput id
    status,          \* per background task: none/recv/hold/run/ok/err/aborted
    task_out,        \* SourceOutput id held by the receiving task, or 0
    done_order,      \* background tasks in the order they completed
    phase,           \* number of spawn calls so far
    drv_pc,          \* position of the driving task
    drv_out,         \* SourceOutput id held by the driving task, or 0
    drv_outcome,     \* the driving task's PhaseOutcomeToken (index into flags)
    drv_wg,          \* the driving task's WaitGroup (index into wgs)
    drv_sent,        \* output_send.send(..).await.is_ok() in this phase
    result,          \* what the driving task returned
    polled,          \* handles yielded by join_handles.next() in this phase
    flags,           \* the Arc<AtomicBool> allocations of PhaseOutcomeToken::new
    wgs,             \* outstanding WaitToken count of every WaitGroup
    outputs,         \* every SourceOutput built: its outcome clone and wait_token
    consumer_state,  \* value of send[0] on entry to update_state
    send_state,      \* value of send[0] left by the last update_state
    panicked,        \* an assertion of update_state or spawn has failed
    call_ports,      \* <<recv.len(), send.len()>> of the latest call
    source_starts,   \* number of spawn_source invocations
    source_parallel, \* this spawn's is_source_output_parallel call: [arg, ret]
    recv_serial,     \* this spawn's send.is_receiver_serial()
    port,            \* the SourceOutputPort built by the latest phase
    done_phase,      \* per background task: the phase it completed in, or 0
    reported,        \* tasks whose error has been a phase result
    port_arg,        \* accessor calls: the SourceOutputPort the call consumes
    port_ret,        \* accessor calls: the accessor called and what came back
    scan_pair,       \* FileScan comparison: the two values
    scan_ret,        \* FileScan comparison: eq and the two hasher feeds
    bundles,         \* from_port calls: what each call returned
    dropped          \* from_port calls: bundles that have been dropped

vars == <<alive, started, join_handles, ready_q, chan_slot, status, task_out,
          done_order, phase, drv_pc, drv_out, drv_outcome, drv_wg, drv_sent,
          result, polled, flags, wgs, outputs, consumer_state, send_state,
          panicked, call_ports, source_starts, source_parallel, recv_serial,
          port, done_phase, reported, port_arg, port_ret, scan_pair, scan_ret,
          bundles, dropped>>

nodeVars == <<started, join_handles, ready_q>>

taskVars == <<status, task_out, done_order>>

drvVars == <<drv_pc, drv_out, drv_outcome, drv_wg, drv_sent, result, polled>>

heapVars == <<flags, wgs, outputs>>

portVars == <<consumer_state, send_state>>

callVars == <<panicked, call_ports>>

srcVars == <<source_starts, source_parallel, recv_serial, port>>

histVars == <<done_phase, reported>>

\* State of the function-level specifications; the node never touches it.
pureVars == <<port_arg, port_ret, scan_pair, scan_ret, bundles, dropped>>

\* Everything the node, its driving task and the background tasks own.
mainVars == <<alive, nodeVars, chan_slot, taskVars, phase, drvVars, portVars,
              callVars, srcVars, histVars>>

NoResult == [kind |-> "none", task |-> 0]

OkResult == [kind |-> "ok", task |-> 0]

ErrResult(t) == [kind |-> "err", task |-> t]

SeqToSet(s) == {s[i] : i \in 1..Len(s)}

---------------------------------------------------------------------------
\* PhaseOutcomeToken

stop_Toggle(f) == ~f

\* PhaseOutcomeToken::stop: store(true)
stop(f) == TRUE

\* PhaseOutcomeToken::was_stopped: load
was_stopped(f) == f

\* PhaseOutcomeToken::did_finish
did_finish(f) == ~was_stopped(f)

\* #[derive(Clone)] on a struct holding an Arc: the clone points at the same flag.
CloneToken(tok) == tok

FromPortWaitToken_Missing(n) == n

FromPortWaitToken_Twice(n) == n + 2

\* wait_token: wait_group.token() in SourceOutput::from_port: one more token
\* of the group is outstanding.
FromPortWaitToken(n) == n + 1

\* WaitGroup::default(): no token outstanding.
WaitGroupDefault == 0

---------------------------------------------------------------------------
\* Primitives of the crate that the adapter uses

\* connector(): the receiving end is gone once the task owning it has exited.
ReceiverDropped == status[RecvTask] \in {"ok", "err", "aborted"}

\* WaitGroup::wait resolves when no token of the group is outstanding.
WaitResolved(g) == wgs[g] = 0

\* Dropping a SourceOutput drops its wait_token.
DropOutput(o) == [wgs EXCEPT ![outputs[o].wait_token] = @ - 1]

\* A completing task wakes its handle: unless still queued, it is enqueued again.
Wake(t) == IF t \in join_handles /\ t \notin SeqToSet(ready_q)
           THEN Append(ready_q, t) ELSE ready_q

---------------------------------------------------------------------------
\* SourceComputeNode::update_state

UpdateStatePort_NoSticky(entry, st, jh) ==
    IF st /\ jh = {} THEN "Done" ELSE "Ready"

UpdateStatePort_NotEmpty(entry, st, jh) ==
    LET s1 == IF st /\ jh # {} THEN "Done" ELSE entry
    IN  IF s1 # "Done" THEN "Ready" ELSE s1

UpdateStatePort_Toggle(entry, st, jh) ==
    LET s1 == IF st /\ jh = {} THEN "Done" ELSE entry
    IN  IF s1 = "Done" THEN s1
        ELSE IF s1 = "Ready" THEN "Blocked" ELSE "Ready"

UpdateStatePort(entry, st, jh) ==
    LET s1 == IF st /\ jh = {} THEN "Done" ELSE entry
    IN  IF s1 # "Done" THEN "Ready" ELSE s1

DriverIdle == drv_pc \in {"idle", "done"}

PortsOk_SendOnly(nr, ns) == ns = 1

\* assert!(recv.is_empty()); assert_eq!(send.len(), 1);
PortsOk(nr, ns) == nr = 0 /\ ns = 1

\* A failed assertion: the call unwinds before it has touched anything, and
\* the execution ends abnormally: nothing of the node runs after it.
Panic(nr, ns) ==
    /\ panicked' = TRUE
    /\ call_ports' = <<nr, ns>>

UpdateState ==
    /\ alive
    /\ ~panicked
    /\ DriverIdle
    /\ \E nr \in 0..MaxPorts, ns \in 0..MaxPorts :
          IF PortsOk(nr, ns)
          THEN /\ send_state' = UpdateStatePort(consumer_state, started,
                                                join_handles)
               /\ call_ports' = <<nr, ns>>
               /\ UNCHANGED panicked
          ELSE /\ Panic(nr, ns)
               /\ UNCHANGED send_state
    /\ UNCHANGED <<alive, nodeVars, chan_slot, taskVars, phase, drvVars,
                   heapVars, consumer_state, srcVars, histVars, pureVars>>

\* The consumer side of the pipe sets the state the source sees on entry;
\* a port that is Done stays Done.
ConsumerChange ==
    /\ ~panicked
    /\ alive
    /\ consumer_state # "Done"
    /\ \E s \in PortStates \ {consumer_state} : consumer_state' = s
    /\ UNCHANGED <<alive, nodeVars, chan_slot, taskVars, phase, drvVars,
                   heapVars, send_state, callVars, srcVars, histVars, pureVars>>

---------------------------------------------------------------------------
\* SourceComputeNode::spawn, synchronous part

\* The get_or_insert_with closure: connector(), spawn_source, the handles
\* collected into a FuturesUnordered (each push enqueues the handle).
SpawnSource(k) ==
    /\ started' = TRUE
    /\ source_starts' = source_starts + 1
    /\ join_handles' = 1..k
    /\ ready_q' = [i \in 1..k |-> i]
    /\ status' = [t \in Tasks |-> IF t = RecvTask THEN "recv"
                                  ELSE IF t <= k THEN "run" ELSE "none"]

NeedsStart_Always(st) == TRUE

\* self.started.get_or_insert_with(..): the closure runs only on None.
NeedsStart(st) == ~st

NoPort == [kind |-> "None", sinks |-> <<>>]

\* SourceOutputPort::Serial(sender)
SerialPort(sink) == [kind |-> "Serial", sinks |-> <<sink>>]

\* SourceOutputPort::Parallel(senders)
ParallelPort(sinks) == [kind |-> "Parallel", sinks |-> sinks]

\* send.serial(): the one sink of the port.
SendSerial == 1

\* send.parallel(): one sink per consumer lane.
SendParallel == [i \in 1..NumLanes |-> i]

\* self.source.is_source_output_parallel(arg) answering ret.
SourceParallel(arg, ret) == [arg |-> arg, ret |-> ret]

\* No call of this spawn is in progress.
NoCall == [arg |-> FALSE, ret |-> FALSE]

BuildPort_AlwaysSerial(par) == SerialPort(SendSerial)

\* if is_source_output_parallel(..) { Parallel(send.parallel()) }
\* else { Serial(send.serial()) }
BuildPort(par) == IF par THEN ParallelPort(SendParallel)
                  ELSE SerialPort(SendSerial)

BeginPhase ==
    /\ alive
    /\ ~panicked
    /\ DriverIdle
    /\ phase < MaxPhases
    /\ \E nr \in 0..MaxPorts, ns \in 0..MaxPorts :
          IF PortsOk(nr, ns)
          THEN /\ call_ports' = <<nr, ns>>
               /\ UNCHANGED panicked
               /\ phase' = phase + 1
               /\ IF NeedsStart(started)
                  THEN \E k \in 1..NTasks : SpawnSource(k)
                  ELSE UNCHANGED <<started, join_handles, ready_q, status,
                                   source_starts>>
               /\ \E rs \in BOOLEAN, par \in BOOLEAN :
                     /\ recv_serial' = rs
                     /\ source_parallel' = SourceParallel(rs, par)
                     /\ port' = BuildPort(par)
               /\ drv_pc' = "start"
               /\ result' = NoResult
               /\ polled' = <<>>
               /\ drv_sent' = FALSE
          ELSE /\ Panic(nr, ns)
               /\ UNCHANGED <<phase, started, join_handles, ready_q, status,
                              source_starts, source_parallel, recv_serial,
                              port, drv_pc, result, polled, drv_sent>>
    /\ UNCHANGED <<alive, chan_slot, task_out, done_order, drv_out,
                   drv_outcome, drv_wg, heapVars, portVars, histVars,
                   pureVars>>

---------------------------------------------------------------------------
\* The driving task

\* SourceOutput::from_port
\* The body shared by SourceOutput::from_port and MorselOutput::from_port: a
\* new token, a new wait group, and a bundle holding a clone of the token and
\* one wait token of the group.
FromPort ==
    /\ flags' = Append(flags, FALSE)
    /\ wgs' = Append(wgs, FromPortWaitToken(WaitGroupDefault))
    /\ outputs' = Append(outputs, [outcome |-> CloneToken(Len(flags) + 1),
                                   wait_token |-> Len(wgs) + 1])

DriverFromPort ==
    /\ drv_pc = "start"
    /\ FromPort
    /\ drv_outcome' = Len(flags) + 1
    /\ drv_wg' = Len(wgs) + 1
    /\ drv_out' = Len(outputs) + 1
    /\ drv_pc' = "send"
    \* source_output is moved into the bundle
    /\ port' = NoPort
    /\ recv_serial' = FALSE
    /\ source_parallel' = NoCall
    /\ UNCHANGED <<alive, nodeVars, chan_slot, taskVars, phase, drv_sent,
                   result, polled, portVars, callVars, source_starts,
                   histVars, pureVars>>

AfterSend_NoWait(ok) == IF ok THEN "check" ELSE "drain"

AfterSend_FailIsOk(ok) == IF ok THEN "wait" ELSE "return_ok"

\* if started.output_send.send(source_output).await.is_ok() { wait .. }
AfterSend(ok) == IF ok THEN "wait" ELSE "drain"

AfterWait_Inverted(finished) == IF finished THEN "return_ok" ELSE "drain"

AfterWait_IgnoreStop(finished) == "drain"

\* if !outcome.did_finish() { return Ok(()) }
AfterWait(finished) == IF finished THEN "drain" ELSE "return_ok"

AfterYield_ErrIsOk(ret) == IF ret = "err" THEN "return_ok" ELSE "drain"

AfterYield_Once(ret) == IF ret = "err" THEN "return_err" ELSE "return_ok"

AfterYield_Swallow(ret) == "drain"

\* while let Some(ret) = started.join_handles.next().await { ret?; }
AfterYield(ret) == IF ret = "err" THEN "return_err" ELSE "drain"

\* Moving to a position; the return positions end the task with a result.
Goto(where, t) ==
    /\ drv_pc' = IF where \in {"return_ok", "return_err"} THEN "done" ELSE where
    /\ result' = IF where = "return_ok" THEN OkResult
                 ELSE IF where = "return_err" THEN ErrResult(t)
                 ELSE result
    /\ reported' = IF where = "return_err" THEN reported \cup {t} ELSE reported

DriverSend ==
    /\ drv_pc = "send"
    /\ IF ReceiverDropped
       THEN \* Err(value): the value comes back and is dropped
            /\ wgs' = DropOutput(drv_out)
            /\ drv_out' = 0
            /\ drv_sent' = FALSE
            /\ Goto(AfterSend(FALSE), 0)
            /\ UNCHANGED chan_slot
       ELSE /\ chan_slot = 0
            /\ chan_slot' = drv_out
            /\ drv_out' = 0
            /\ drv_sent' = TRUE
            /\ Goto(AfterSend(TRUE), 0)
            /\ UNCHANGED wgs
    /\ UNCHANGED <<alive, nodeVars, taskVars, phase, drv_outcome, drv_wg,
                   polled, flags, outputs, portVars, callVars, srcVars,
                   done_phase, pureVars>>

\* wait_group.wait().await
DriverWait ==
    /\ drv_pc = "wait"
    /\ WaitResolved(drv_wg)
    /\ drv_pc' = "check"
    /\ UNCHANGED <<alive, nodeVars, chan_slot, taskVars, phase, drv_out,
                   drv_outcome, drv_wg, drv_sent, result, polled, heapVars,
                   portVars, callVars, srcVars, histVars, pureVars>>

DriverCheck ==
    /\ drv_pc = "check"
    /\ Goto(AfterWait(did_finish(flags[drv_outcome])), 0)
    /\ UNCHANGED <<alive, nodeVars, chan_slot, taskVars, phase, drv_out,
                   drv_outcome, drv_wg, drv_sent, polled, heapVars, portVars,
                   callVars, srcVars, done_phase, pureVars>>

Yielded_ClearOnErr(jh, t) == IF status[t] = "err" THEN {} ELSE jh \ {t}

\* join_handles.next() hands out a completed handle and removes it, and only
\* it, from the set.
Yielded(jh, t) == jh \ {t}

\* One poll of join_handles.next(): None when the set is empty; otherwise the
\* head of the ready-to-run queue is polled, and is yielded if it completed.
DriverDrain ==
    /\ drv_pc = "drain"
    /\ IF join_handles = {}
       THEN /\ Goto("return_ok", 0)
            /\ UNCHANGED <<join_handles, ready_q, polled>>
       ELSE /\ ready_q # <<>>
            /\ LET t == Head(ready_q) IN
               IF status[t] \in Finished
               THEN /\ join_handles' = Yielded(join_handles, t)
                    /\ ready_q' = Tail(ready_q)
                    /\ polled' = Append(polled, t)
                    /\ Goto(AfterYield(status[t]), t)
               ELSE /\ ready_q' = Tail(ready_q)
                    /\ UNCHANGED <<join_handles, polled, drv_pc, result,
                                   reported>>
    /\ UNCHANGED <<alive, started, chan_slot, taskVars, phase, drv_out,
                   drv_outcome, drv_wg, drv_sent, heapVars, portVars,
                   callVars, srcVars, done_phase, pureVars>>

---------------------------------------------------------------------------
\* Background tasks of the producer (the spawn_source contract)

\* output_recv.recv().await
TaskRecv ==
    /\ ~panicked
    /\ status[RecvTask] = "recv"
    /\ chan_slot # 0
    /\ task_out' = chan_slot
    /\ chan_slot' = 0
    /\ status' = [status EXCEPT ![RecvTask] = "hold"]
    /\ UNCHANGED <<alive, nodeVars, done_order, phase, drvVars, heapVars,
                   portVars, callVars, srcVars, histVars, pureVars>>

\* output.outcome.stop()
TaskStop ==
    /\ ~panicked
    /\ status[RecvTask] = "hold"
    /\ flags' = [flags EXCEPT ![outputs[task_out].outcome] = stop(@)]
    /\ UNCHANGED <<alive, nodeVars, chan_slot, taskVars, phase, drvVars, wgs,
                   outputs, portVars, callVars, srcVars, histVars, pureVars>>

\* drop(output): after a stop the task waits for a new output, otherwise the
\* source is finished and the task goes on to exit.
TaskDropOutput ==
    /\ ~panicked
    /\ status[RecvTask] = "hold"
    /\ wgs' = DropOutput(task_out)
    /\ task_out' = 0
    /\ status' = [status EXCEPT ![RecvTask] =
                    IF was_stopped(flags[outputs[task_out].outcome])
                    THEN "recv" ELSE "run"]
    /\ UNCHANGED <<alive, nodeVars, chan_slot, done_order, phase, drvVars,
                   flags, outputs, portVars, callVars, srcVars, histVars,
                   pureVars>>

\* The receiving task fails while it holds the output: the output is dropped
\* with the task's state.
TaskFailHolding ==
    /\ ~panicked
    /\ status[RecvTask] = "hold"
    /\ wgs' = DropOutput(task_out)
    /\ task_out' = 0
    /\ status' = [status EXCEPT ![RecvTask] = "err"]
    /\ done_order' = Append(done_order, RecvTask)
    /\ ready_q' = Wake(RecvTask)
    /\ done_phase' = [done_phase EXCEPT ![RecvTask] = phase]
    /\ UNCHANGED <<alive, started, join_handles, chan_slot, phase, drvVars,
                   flags, outputs, portVars, callVars, srcVars, reported,
                   pureVars>>

\* A task that holds no output returns Ok(()) or Err(..).
TaskExit(t, r) ==
    /\ ~panicked
    /\ status[t] = "run"
    /\ status' = [status EXCEPT ![t] = r]
    /\ done_order' = Append(done_order, t)
    /\ ready_q' = Wake(t)
    /\ done_phase' = [done_phase EXCEPT ![t] = IF DriverIdle THEN 0 ELSE phase]
    /\ UNCHANGED <<alive, started, join_handles, chan_slot, task_out, phase,
                   drvVars, heapVars, portVars, callVars, srcVars, reported,
                   pureVars>>

---------------------------------------------------------------------------
\* Dropping the node drops started.join_handles: every AbortOnDropHandle
\* aborts its task.
NodeDrop ==
    /\ ~panicked
    /\ alive
    /\ DriverIdle
    /\ alive' = FALSE
    /\ status' = [t \in Tasks |-> IF t \in join_handles /\ status[t] \in Running
                                  THEN "aborted" ELSE status[t]]
    /\ join_handles' = {}
    /\ ready_q' = <<>>
    /\ UNCHANGED <<started, chan_slot, task_out, done_order, phase, drvVars,
                   heapVars, portVars, callVars, srcVars, histVars, pureVars>>

---------------------------------------------------------------------------

\* The accessor returned value v.
Returned(v) == [panic |-> FALSE, value |-> v]

\* panic!()
PanicRet == [panic |-> TRUE, value |-> <<>>]

\* No accessor was called yet.
NoRet == [fn |-> "none", out |-> PanicRet]

\* Nothing was compared yet.
NoScanRet == [called |-> FALSE, eq |-> FALSE, feed_a |-> <<>>, feed_b |-> <<>>]

\* SourceComputeNode::new
NodeInit ==
    /\ alive = TRUE
    /\ started = FALSE
    /\ join_handles = {}
    /\ ready_q = <<>>
    /\ chan_slot = 0
    /\ status = [t \in Tasks |-> "none"]
    /\ task_out = 0
    /\ done_order = <<>>
    /\ phase = 0
    /\ drv_pc = "idle"
    /\ drv_out = 0
    /\ drv_outcome = 0
    /\ drv_wg = 0
    /\ drv_sent = FALSE
    /\ result = NoResult
    /\ polled = <<>>
    /\ flags = <<>>
    /\ wgs = <<>>
    /\ outputs = <<>>
    /\ consumer_state = "Blocked"
    /\ send_state = "Blocked"
    /\ panicked = FALSE
    /\ call_ports = <<0, 1>>
    /\ source_starts = 0
    /\ source_parallel = NoCall
    /\ recv_serial = FALSE
    /\ port = NoPort
    /\ done_phase = [t \in Tasks |-> 0]
    /\ reported = {}

\* The function-level state while the node runs.
PureIdle ==
    /\ port_arg = NoPort
    /\ port_ret = NoRet
    /\ scan_pair = <<>>
    /\ scan_ret = NoScanRet
    /\ bundles = <<>>
    /\ dropped = {}

Init == NodeInit /\ PureIdle

---------------------------------------------------------------------------
\* SourceOutputPort::serial and SourceOutputPort::parallel

Sinks == 1..MaxSinks

SinkSeqs == UNION {[1..n -> Sinks] : n \in 0..MaxSinks}

\* Every port that can be built: Serial(sink) or Parallel(sinks).
Ports == {SerialPort(x) : x \in Sinks} \cup {ParallelPort(q) : q \in SinkSeqs}

serial_AnyKind(p) ==
    IF p.sinks # <<>> THEN Returned(<<p.sinks[1]>>) ELSE PanicRet

\* match self { Self::Serial(s) => s, _ => panic!() }
serial(p) ==
    IF p.kind = "Serial" THEN Returned(<<p.sinks[1]>>) ELSE PanicRet

\* match self { Self::Parallel(s) => s, _ => panic!() }
parallel(p) ==
    IF p.kind = "Parallel" THEN Returned(p.sinks) ELSE PanicRet

CallSerial ==
    /\ port_ret = NoRet
    /\ port_ret' = [fn |-> "serial", out |-> serial(port_arg)]
    /\ UNCHANGED <<mainVars, heapVars, port_arg, scan_pair, scan_ret,
                   bundles, dropped>>

CallParallel ==
    /\ port_ret = NoRet
    /\ port_ret' = [fn |-> "parallel", out |-> parallel(port_arg)]
    /\ UNCHANGED <<mainVars, heapVars, port_arg, scan_pair, scan_ret,
                   bundles, dropped>>

PortInit ==
    /\ NodeInit
    /\ port_arg \in Ports
    /\ port_ret = NoRet
    /\ scan_pair = <<>>
    /\ scan_ret = NoScanRet
    /\ bundles = <<>>
    /\ dropped = {}

PortNext == CallSerial \/ CallParallel

PortSpec == PortInit /\ [][PortNext]_vars

---------------------------------------------------------------------------
\* SourceOutput::from_port and MorselOutput::from_port, called on their own

\* The triple (outcome, wait_group, output) a from_port call returns.
Triple(kind) ==
    [kind |-> kind, outcome |-> Len(flags) + 1, wait_group |-> Len(wgs) + 1,
     output |-> Len(outputs) + 1]

SourceOutputFromPort ==
    /\ Len(bundles) < MaxBundles
    /\ FromPort
    /\ bundles' = Append(bundles, Triple("SourceOutput"))
    /\ UNCHANGED <<mainVars, port_arg, port_ret, scan_pair, scan_ret, dropped>>

MorselOutputFromPort ==
    /\ Len(bundles) < MaxBundles
    /\ FromPort
    /\ bundles' = Append(bundles, Triple("MorselOutput"))
    /\ UNCHANGED <<mainVars, port_arg, port_ret, scan_pair, scan_ret, dropped>>

\* output.outcome.stop() by the holder of bundle i
BundleStop(i) ==
    /\ i \in 1..Len(bundles)
    /\ i \notin dropped
    /\ flags' = [flags EXCEPT ![outputs[bundles[i].output].outcome] = stop(@)]
    /\ UNCHANGED <<mainVars, wgs, outputs, pureVars>>

\* drop(output) by the holder of bundle i
BundleDrop(i) ==
    /\ i \in 1..Len(bundles)
    /\ i \notin dropped
    /\ wgs' = DropOutput(bundles[i].output)
    /\ dropped' = dropped \cup {i}
    /\ UNCHANGED <<mainVars, flags, outputs, port_arg, port_ret, scan_pair,
                   scan_ret, bundles>>

BundleNext ==
    \/ SourceOutputFromPort
    \/ MorselOutputFromPort
    \/ \E i \in 1..MaxBundles : BundleStop(i)
    \/ \E i \in 1..MaxBundles : BundleDrop(i)

BundleSpec == Init /\ [][BundleNext]_vars

---------------------------------------------------------------------------
\* FileScan: PartialEq and Hash

Variants == {"Csv", "NDJson", "Parquet", "Ipc", "Anonymous"}

\* Option<..> fields: 0 is None.
Scan(v, o, c, m, f) ==
    [variant |-> v, options |-> o, cloud_options |-> c, metadata |-> m,
     function |-> f]

FileScans ==
    {Scan(v, o, c, 0, 0) :
        v \in {"Csv", "NDJson"}, o \in 1..NumOptions, c \in 0..NumCloud}
    \cup {Scan(v, o, c, m, 0) :
        v \in {"Parquet", "Ipc"}, o \in 1..NumOptions, c \in 0..NumCloud,
        m \in 0..NumMeta}
    \cup {Scan("Anonymous", o, 0, 0, f) :
        o \in 1..NumOptions, f \in 1..NumFunctions}

\* impl PartialEq for FileScan
FileScanEq(a, b) ==
    IF a.variant = b.variant /\ a.variant \in {"Csv", "Parquet", "Ipc", "NDJson"}
    THEN a.options = b.options /\ a.cloud_options = b.cloud_options
    ELSE FALSE

\* std::mem::discriminant(self)
Discriminant(a) == a.variant

HashFeed_WithMetadata(a) ==
    <<Discriminant(a)>> \o
    (IF a.variant = "Anonymous" THEN <<a.options>>
     ELSE <<a.options, a.cloud_options, a.metadata>>)

\* impl Hash for FileScan: what is fed to the hasher, in order.
HashFeed(a) ==
    <<Discriminant(a)>> \o
    (IF a.variant = "Anonymous" THEN <<a.options>>
     ELSE <<a.options, a.cloud_options>>)

\* a == b, and a.hash(..), b.hash(..)
EqAndHash ==
    /\ ~scan_ret.called
    /\ scan_ret' = [called |-> TRUE,
                    eq |-> FileScanEq(scan_pair[1], scan_pair[2]),
                    feed_a |-> HashFeed(scan_pair[1]),
                    feed_b |-> HashFeed(scan_pair[2])]
    /\ UNCHANGED <<mainVars, heapVars, port_arg, port_ret, scan_pair,
                   bundles, dropped>>

ScanInit ==
    /\ NodeInit
    /\ port_arg = NoPort
    /\ port_ret = NoRet
    /\ scan_pair \in FileScans \X FileScans
    /\ scan_ret = NoScanRet
    /\ bundles = <<>>
    /\ dropped = {}

ScanNext == EqAndHash

ScanSpec == ScanInit /\ [][ScanNext]_vars


DriverStep ==
    \/ DriverFromPort
    \/ DriverSend
    \/ DriverWait
    \/ DriverCheck
    \/ DriverDrain

Next ==
    \/ UpdateState
    \/ ConsumerChange
    \/ BeginPhase
    \/ DriverFromPort
    \/ DriverSend
    \/ DriverWait
    \/ DriverCheck
    \/ DriverDrain
    \/ TaskRecv
    \/ TaskStop
    \/ TaskDropOutput
    \/ TaskFailHolding
    \/ \E t \in Tasks : \E r \in Finished : TaskExit(t, r)
    \/ NodeDrop

Spec == Init /\ [][Next]_vars

\* The executor keeps running a driving task that can make progress.
FairSpec == Spec /\ WF_vars(DriverStep)

\* A producer that obeys the spawn_source contract: a task that holds no
\* output and is not waiting for one goes on to return.
TaskReturns == \E t \in Tasks : \E r \in Finished : TaskExit(t, r)

LiveSpec == Spec /\ WF_vars(DriverStep) /\ WF_vars(TaskReturns)

---------------------------------------------------------------------------
\* Properties

\* A call of update_state that passed its assertions and returned Ok(()).
UpdateStateReturns == UpdateState /\ ~panicked'

\* SourceOutputs that exist: held by the driving task, in the connector slot,
\* or held by the receiving task.
AliveOutputs == {drv_out, chan_slot, task_out} \ {0}

\* The SourceOutput built by the latest phase.
CurOut == Len(outputs)

\* C1: with a phase started only after the previous driving task returned, at
\* most one SourceOutput created by the node is alive at any time.
C1_AtMostOneOutputAlive == Cardinality(AliveOutputs) <= 1

C1_Witness == Len(outputs) = 2 /\ task_out = 2

\* The driving task is past wait_group.wait() after a successful send.
PastWait == drv_pc = "check" \/ (drv_sent /\ drv_pc \in {"drain", "done"})

\* C2: after a successful send the driving task is never past
\* wait_group.wait() while the phase's SourceOutput (its WaitToken) still
\* exists, and once that SourceOutput is dropped the wait resolves.
C2_WaitIffTokensDropped ==
    /\ [](PastWait => CurOut \notin AliveOutputs)
    /\ ((drv_pc = "wait" /\ CurOut \notin AliveOutputs) ~> (drv_pc # "wait"))

C2_Witness == drv_pc = "check" /\ drv_sent /\ CurOut \notin AliveOutputs

\* C3: a PhaseOutcomeToken starts with did_finish() true; once stop() was
\* called through any clone, was_stopped() stays true and did_finish() false
\* on every clone; a second stop() changes nothing.
C3_StopIsPermanentAndShared ==
    /\ [](\A o \in AliveOutputs : o = CurOut => outputs[o].outcome = drv_outcome)
    /\ [][/\ \A i \in 1..Len(flags) :
                was_stopped(flags[i]) =>
                    /\ i <= Len(flags')
                    /\ was_stopped(flags'[i])
                    /\ ~did_finish(flags'[i])
          /\ \A i \in (Len(flags) + 1)..Len(flags') : did_finish(flags'[i])
          /\ TaskStop =>
                /\ was_stopped(flags'[drv_outcome])
                /\ ~did_finish(flags'[outputs[task_out].outcome])
                /\ was_stopped(flags[outputs[task_out].outcome]) => flags' = flags
         ]_vars

C3_Witness ==
    /\ Len(flags) >= 2
    /\ was_stopped(flags[1])
    /\ did_finish(flags[2])
    /\ drv_outcome = 2

\* C4 as stated: update_state leaves Done if started with an empty task set
\* and Ready in every other case, whatever send[0] held on entry.
C4_Original ==
    [][UpdateStateReturns =>
          send_state' = IF started /\ join_handles = {} THEN "Done" ELSE "Ready"
      ]_vars

\* C4 as amended: update_state leaves Done if started with an empty task set
\* or if send[0] already held Done on entry, and Ready in every other case.
C4_DoneIffDrainedOrDoneOnEntry ==
    [][UpdateStateReturns =>
          send_state' = IF (started /\ join_handles = {}) \/ consumer_state = "Done"
                        THEN "Done" ELSE "Ready"
      ]_vars

C4_Witness ==
    /\ send_state = "Done"
    /\ consumer_state = "Done"
    /\ started
    /\ join_handles # {}
    /\ alive

AllTasksOk == started /\ \A t \in Tasks : status[t] \in {"ok", "none"}

\* The phase's output was delivered and dropped without a stop.
PhaseFinished == drv_sent /\ did_finish(flags[drv_outcome])

\* C6: when the producer drops the output without a stop and every registered
\* task exits successfully, the driving task returns Ok having awaited every
\* handle, the task set is empty and the next update_state reports Done.
C6_NormalFinishDrainsAndReportsDone ==
    /\ []((drv_pc = "done" /\ PhaseFinished /\ AllTasksOk) =>
            /\ result = OkResult
            /\ join_handles = {}
            /\ \A e \in PortStates :
                  UpdateStatePort(e, started, join_handles) = "Done")
    /\ [][(UpdateStateReturns /\ PhaseFinished /\ AllTasksOk) => send_state' = "Done"]_vars
    /\ ((drv_pc \in {"check", "drain"} /\ PhaseFinished /\ AllTasksOk)
            ~> (drv_pc = "done" /\ result = OkResult /\ join_handles = {}))

C6_Witness ==
    /\ drv_pc = "done"
    /\ PhaseFinished
    /\ AllTasksOk
    /\ result = OkResult
    /\ Len(polled) >= 1
    /\ send_state = "Done"
    /\ consumer_state = "Ready"

\* The latest phase ended with the token marked stopped.
StoppedPhaseDone ==
    drv_pc = "done" /\ drv_sent /\ was_stopped(flags[drv_outcome])

\* The driving task is past the send of a phase that follows a stopped phase.
AfterStoppedPhase ==
    /\ drv_pc \in {"wait", "check", "drain", "done"}
    /\ Len(flags) >= 2
    /\ drv_outcome = Len(flags)
    /\ was_stopped(flags[Len(flags) - 1])

\* What a stopped phase leaves behind, without the readiness and delivery parts.
StoppedPhaseReturnsOk ==
    /\ [][(DriverCheck /\ was_stopped(flags[drv_outcome])) =>
            /\ drv_pc' = "done"
            /\ result' = OkResult
            /\ join_handles' = join_handles
            /\ ready_q' = ready_q]_vars
    /\ [](StoppedPhaseDone =>
            /\ result = OkResult
            /\ polled = <<>>
            /\ chan_slot = 0
            /\ (alive => RecvTask \in join_handles))
    /\ [][TaskRecv =>
            /\ task_out' = CurOut
            /\ outputs[CurOut].outcome = drv_outcome
            /\ did_finish(flags[drv_outcome])]_vars

\* C7 as stated: after a stopped phase the driving task returns Ok without
\* awaiting a handle, task set and sender are unchanged, the next update_state
\* reports Ready, and the following phase's send delivers a fresh output to
\* the same task.
C7_Original ==
    /\ StoppedPhaseReturnsOk
    /\ [][(UpdateStateReturns /\ StoppedPhaseDone) => send_state' = "Ready"]_vars
    /\ [](AfterStoppedPhase => drv_sent)

\* C7 as amended: the next update_state reports Ready unless send[0] held Done
\* on entry, and the following phase's send delivers a fresh output to the
\* same task unless that task has exited in the meantime.
C7_StoppedPhaseLeavesNodeReusable ==
    /\ StoppedPhaseReturnsOk
    /\ [][(UpdateStateReturns /\ StoppedPhaseDone) =>
            send_state' = IF consumer_state = "Done" THEN "Done" ELSE "Ready"]_vars
    /\ [](AfterStoppedPhase => (drv_sent \/ ReceiverDropped))

C7_Witness ==
    /\ Len(flags) = 2
    /\ was_stopped(flags[1])
    /\ task_out = 2
    /\ status[RecvTask] = "hold"
    /\ join_handles = {t \in Tasks : status[t] # "none"}

\* Handles that were in the task set when this phase began.
Candidates == join_handles \cup SeqToSet(polled)

FailedAt == {i \in 1..Len(done_order) :
                status[done_order[i]] = "err" /\ done_order[i] \in Candidates}

\* The first task to fail, in completion order, among Candidates (0 if none).
FirstFailed ==
    IF FailedAt = {} THEN 0
    ELSE done_order[CHOOSE i \in FailedAt : \A j \in FailedAt : i <= j]

\* C8 as stated: a phase that returns an error returns the error of the first
\* task to fail in completion order.
C8_Original ==
    (alive /\ drv_pc = "done" /\ result.kind = "err") => result.task = FirstFailed

\* C8 as amended: a phase that returns an error returns the error of the first
\* failed handle that join_handles.next() yields; every handle yielded before
\* it succeeded, and a phase that returns Ok after draining yielded no failure.
C8_FirstYieldedErrorIsResult ==
    /\ (drv_pc = "done" /\ result.kind = "err") =>
            /\ Len(polled) >= 1
            /\ result.task = polled[Len(polled)]
            /\ status[result.task] = "err"
            /\ \A i \in 1..(Len(polled) - 1) : status[polled[i]] = "ok"
    /\ (drv_pc = "drain" \/ (drv_pc = "done" /\ result.kind = "ok")) =>
            \A i \in 1..Len(polled) : status[polled[i]] = "ok"

C8_Witness ==
    /\ drv_pc = "done"
    /\ result.kind = "err"
    /\ status[polled[Len(polled)]] = "err"
    /\ FirstFailed \in join_handles

\* C9: when the phase result (a task's error) is returned, no other task of
\* the producer is still running.
C9_Original ==
    (alive /\ drv_pc = "done" /\ result.kind = "err") =>
        \A t \in Tasks \ {result.task} : status[t] \notin Running

\* The latest phase's send failed on a closed channel and the task returned.
SendFailedDone == drv_pc = "done" /\ phase >= 1 /\ ~drv_sent

\* C10 as stated: a phase whose send fails on a closed channel returns Ok.
C10_Original == SendFailedDone => result = OkResult

\* C10 as amended: a failed send is no error in itself; the driving task skips
\* the wait and drains the task set: it returns Ok only with the set empty and
\* no failure yielded, and otherwise the error of a failed task.
C10_ClosedChannelDrainsHandles ==
    /\ drv_pc \in {"wait", "check"} => drv_sent
    /\ (SendFailedDone /\ result.kind = "ok" /\ alive) =>
            /\ join_handles = {}
            /\ \A i \in 1..Len(polled) : status[polled[i]] = "ok"
    /\ (SendFailedDone /\ result.kind = "err") =>
            /\ status[result.task] = "err"
            /\ result.task = polled[Len(polled)]
    /\ SendFailedDone => result.kind \in {"ok", "err"}

C10_Witness ==
    /\ SendFailedDone
    /\ result.kind = "err"
    /\ status[RecvTask] = "err"

\* C11: over any sequence of spawn calls spawn_source is invoked exactly once,
\* on the first call; started goes from None to Some once and never back, and
\* every later phase reuses the same connector and the same task set.
C11_ProducerStartedOnce ==
    /\ [](source_starts = IF started THEN 1 ELSE 0)
    /\ [](phase >= 1 => started)
    /\ [][(BeginPhase /\ ~panicked' /\ ~started) =>
            (started' /\ source_starts' = 1)]_vars
    /\ [][started =>
            /\ started'
            /\ source_starts' = source_starts
            /\ join_handles' \subseteq join_handles
            /\ \A t \in Tasks : (status[t] = "none") <=> (status'[t] = "none")
         ]_vars

C11_Witness ==
    /\ phase >= 2
    /\ source_starts = 1
    /\ task_out = 2
    /\ status[RecvTask] = "hold"

\* C12: in every phase the port built is Parallel, with one sink per consumer
\* lane, exactly when is_source_output_parallel, called with the send port's
\* is_receiver_serial value, returns true, and Serial exactly when it
\* returns false.
C12_PortShapeFollowsProducer ==
    drv_pc = "start" =>
        /\ source_parallel.arg = recv_serial
        /\ port.kind \in {"Serial", "Parallel"}
        /\ (port.kind = "Parallel") <=> source_parallel.ret
        /\ (port.kind = "Serial") <=> ~source_parallel.ret
        /\ port.kind = "Parallel" =>
              /\ Len(port.sinks) = NumLanes
              /\ \A i \in 1..NumLanes : port.sinks[i] = i
        /\ port.kind = "Serial" => Len(port.sinks) = 1

C12_Witness ==
    /\ drv_pc = "start"
    /\ phase >= 2
    /\ ~recv_serial
    /\ source_parallel.ret
    /\ port.kind = "Parallel"
    /\ status[RecvTask] = "recv"

\* C14: update_state and spawn end in a failed assertion, with nothing of the
\* node changed and the producer not started by the call, unless they are
\* given zero receive ports and exactly one send port.
C14_WrongPortCountIsFatal ==
    /\ [](panicked <=> call_ports # <<0, 1>>)
    /\ [][(UpdateState \/ BeginPhase) =>
            (panicked' <=> (call_ports'[1] # 0 \/ call_ports'[2] # 1))]_vars
    /\ [][panicked' =>
            UNCHANGED <<alive, nodeVars, chan_slot, taskVars, phase, drvVars,
                        heapVars, portVars, srcVars, histVars>>]_vars

C14_Witness ==
    /\ panicked
    /\ call_ports = <<1, 1>>
    /\ ~started
    /\ source_starts = 0
    /\ send_state = "Blocked"

\* C15: update_state is idempotent: a second call given the port state the
\* first call produced produces that port state again, and no call changes
\* the adapter's own state.
C15_UpdateStateIdempotent ==
    /\ [](\A e \in PortStates :
            LET once == UpdateStatePort(e, started, join_handles)
            IN  UpdateStatePort(once, started, join_handles) = once)
    /\ [][UpdateStateReturns =>
            /\ UpdateStatePort(send_state', started', join_handles')
                  = send_state'
            /\ UNCHANGED <<alive, nodeVars, chan_slot, taskVars, phase,
                           drvVars, heapVars, srcVars, histVars>>
         ]_vars

C15_Witness ==
    /\ started
    /\ join_handles # {}
    /\ drv_pc = "done"
    /\ consumer_state = "Blocked"
    /\ send_state = "Ready"
    /\ UpdateStatePort(send_state, started, join_handles) = "Ready"

\* The producer has dropped the output of the running phase.
OutputDropped == drv_pc = "wait" /\ WaitResolved(drv_wg)

\* C17: with a producer that obeys the contract, the driving task returns
\* once the producer has dropped the phase's output, and the drain loop never
\* waits on a task that is blocked on the handoff channel.
C17_DriverReturnsAfterOutputDropped ==
    /\ [](drv_pc = "drain" =>
            \A t \in join_handles : status[t] \in {"run", "ok", "err"})
    /\ (OutputDropped ~> drv_pc = "done")
    /\ (drv_pc = "drain" ~> drv_pc = "done")

C17_Witness ==
    /\ drv_pc = "drain"
    /\ drv_sent
    /\ ready_q = <<>>
    /\ status[RecvTask] = "run"
    /\ join_handles = Tasks

\* Task t failed while the driving task of an earlier phase was running, and
\* that phase's token ended stopped.
FailedInStoppedPhase(t) ==
    /\ status[t] = "err"
    /\ done_phase[t] \in 1..(phase - 1)
    /\ was_stopped(flags[done_phase[t]])

\* No phase between the one t failed in and the current one reached the drain
\* loop: each of them ended stopped.
NoDrainSince(t) ==
    \A q \in (done_phase[t] + 1)..(phase - 1) : was_stopped(flags[q])

\* The driving task returns from the drain loop.
DrainReturns == drv_pc = "drain" /\ drv_pc' = "done"

\* C18 as stated: a failure during a stopped phase is the result of the first
\* later phase that reaches the drain loop.
C18_Original ==
    [][DrainReturns =>
        \A t \in join_handles :
            (FailedInStoppedPhase(t) /\ NoDrainSince(t)) =>
                result' = ErrResult(t)]_vars

\* C18 as amended: a stopped phase returns Ok whatever failed during it; a
\* failed handle stays in the task set until a drain loop yields it; and a
\* phase that leaves the drain loop while a failed handle is in the task set
\* returns the error of one of the failed handles, the first one yielded.
C18_StoppedPhaseFailureSurfacesLater ==
    /\ [](StoppedPhaseDone => result = OkResult)
    /\ [](\A t \in Tasks :
            (alive /\ status[t] = "err") =>
                (t \in join_handles \/ t \in reported))
    /\ [][DrainReturns =>
            LET failed == {t \in join_handles : status[t] = "err"}
            IN  failed # {} =>
                  /\ result'.kind = "err"
                  /\ result'.task \in failed
                  /\ result'.task = Head(ready_q)
                  /\ reported' = reported \cup {result'.task}
                  /\ join_handles' = join_handles \ {result'.task}
         ]_vars

C18_Witness ==
    /\ drv_pc = "done"
    /\ result.kind = "err"
    /\ done_phase[result.task] \in 1..(phase - 1)
    /\ was_stopped(flags[done_phase[result.task]])
    /\ \E t \in join_handles : FailedInStoppedPhase(t)

\* The latest phase returned a task's error and handles remain in the set.
ErrWithRemaining ==
    alive /\ drv_pc = "done" /\ result.kind = "err" /\ join_handles # {}

\* C19 as stated: after an error return that leaves handles in the task set,
\* the next update_state reports Ready.
C19_Original ==
    [][(UpdateStateReturns /\ ErrWithRemaining) => send_state' = "Ready"]_vars

\* C19 as amended: the error return removes only the yielded handle, and only
\* completed handles ever leave the set of a live node, in the drain loop;
\* the next update_state reports Ready unless the send port is Done on entry,
\* and Done is reported for a port not Done on entry only with the set empty.
C19_ErrorReturnKeepsRemainingHandles ==
    /\ [][(DrainReturns /\ result'.kind = "err") =>
            /\ join_handles' = join_handles \ {result'.task}
            /\ started']_vars
    /\ [][(started /\ alive') =>
            /\ join_handles' \subseteq join_handles
            /\ \A t \in join_handles \ join_handles' :
                  drv_pc = "drain" /\ status[t] \in Finished]_vars
    /\ [][(UpdateStateReturns /\ ErrWithRemaining) =>
            send_state' = IF consumer_state = "Done" THEN "Done"
                          ELSE "Ready"]_vars
    /\ [][(UpdateStateReturns /\ consumer_state # "Done"
                              /\ send_state' = "Done") =>
            (started /\ join_handles = {})]_vars

C19_Witness ==
    /\ alive
    /\ phase >= 2
    /\ drv_pc = "done"
    /\ result = OkResult
    /\ reported # {}
    /\ Len(polled) >= 1
    /\ join_handles = {}
    /\ consumer_state = "Ready"
    /\ send_state = "Done"

\* C13: serial() on a port built as Parallel and parallel() on a port built
\* as Serial panic and return no sink; the accessor that matches the port's
\* shape returns exactly the sink or sinks the port was built with.
C13_AccessorMatchesShapeOrPanics ==
    port_ret.fn # "none" =>
        /\ (port_ret.fn = "serial" /\ port_arg.kind = "Parallel") =>
              port_ret.out = PanicRet
        /\ (port_ret.fn = "parallel" /\ port_arg.kind = "Serial") =>
              port_ret.out = PanicRet
        /\ (port_ret.fn = "serial" /\ port_arg.kind = "Serial") =>
              /\ ~port_ret.out.panic
              /\ port_ret.out.value = port_arg.sinks
              /\ Len(port_ret.out.value) = 1
        /\ (port_ret.fn = "parallel" /\ port_arg.kind = "Parallel") =>
              /\ ~port_ret.out.panic
              /\ port_ret.out.value = port_arg.sinks
        /\ port_ret.out.panic => port_ret.out.value = <<>>

C13_Witness ==
    /\ port_ret.fn = "serial"
    /\ port_arg.kind = "Parallel"
    /\ Len(port_arg.sinks) = 2
    /\ port_ret.out.panic

\* C16: each from_port returns a token that shares its flag with the
\* bundle's token, so a stop through the bundle is seen by the returned
\* token, and a wait group whose only outstanding token is the one inside
\* the bundle, so that wait() resolves exactly when the bundle is dropped.
C16_FromPortTripleIsLinked ==
    /\ [](\A i \in 1..Len(bundles) :
            LET b == bundles[i]
                o == outputs[b.output]
            IN  /\ b.kind \in {"SourceOutput", "MorselOutput"}
                /\ o.outcome = b.outcome
                /\ o.wait_token = b.wait_group
                /\ wgs[b.wait_group] = IF i \in dropped THEN 0 ELSE 1
                /\ WaitResolved(b.wait_group) <=> i \in dropped
                /\ \A j \in 1..Len(bundles) :
                      j # i => /\ bundles[j].outcome # b.outcome
                               /\ bundles[j].wait_group # b.wait_group)
    /\ [][\A i \in 1..MaxBundles :
            BundleStop(i) =>
                /\ was_stopped(flags'[bundles[i].outcome])
                /\ \A j \in 1..Len(bundles) :
                      j # i => flags'[bundles[j].outcome]
                                  = flags[bundles[j].outcome]]_vars
    /\ [][(SourceOutputFromPort \/ MorselOutputFromPort) =>
            LET b == bundles'[Len(bundles')]
            IN  /\ did_finish(flags'[b.outcome])
                /\ wgs'[b.wait_group] = 1
                /\ outputs'[b.output].outcome = b.outcome]_vars

C16_Witness ==
    /\ Len(bundles) = 2
    /\ bundles[1].kind = "SourceOutput"
    /\ bundles[2].kind = "MorselOutput"
    /\ was_stopped(flags[bundles[2].outcome])
    /\ did_finish(flags[bundles[1].outcome])
    /\ dropped = {2}
    /\ WaitResolved(bundles[2].wait_group)
    /\ ~WaitResolved(bundles[1].wait_group)

\* The value a with its cached metadata replaced by m.
WithMetadata(a, m) == [a EXCEPT !.metadata = m]

\* C20: for every pair of FileScan values, a == b implies both feed the same
\* data to the hasher; neither equality nor hashing looks at the cached
\* metadata of Parquet and Ipc; values of different variants are not equal.
C20_EqImpliesSameHashFeed ==
    scan_ret.called =>
        LET a == scan_pair[1]
            b == scan_pair[2]
        IN  /\ scan_ret.eq => scan_ret.feed_a = scan_ret.feed_b
            /\ a.variant # b.variant => ~scan_ret.eq
            /\ a.variant \in {"Parquet", "Ipc"} =>
                  \A m \in 0..NumMeta :
                      /\ HashFeed(WithMetadata(a, m)) = scan_ret.feed_a
                      /\ FileScanEq(WithMetadata(a, m), b) = scan_ret.eq
                      /\ FileScanEq(b, WithMetadata(a, m)) = FileScanEq(b, a)
            /\ (/\ a.variant = b.variant
                /\ a.variant \in {"Parquet", "Ipc"}
                /\ a.options = b.options
                /\ a.cloud_options = b.cloud_options) => scan_ret.eq

C20_Witness ==
    /\ scan_ret.called
    /\ scan_pair[1].variant = "Parquet"
    /\ scan_pair[2].variant = "Parquet"
    /\ scan_pair[1].metadata # scan_pair[2].metadata
    /\ scan_pair[1].cloud_options = 1
    /\ scan_ret.eq
    /\ scan_ret.feed_a = scan_ret.feed_b

====
